---- MODULE Spec2Model ----
(***************************************************************************)
(* State-machine model of the GardenPi ADC daemon                          *)
(* (PiController/adc-daemon/adc-daemon.py): start-up, the accept loop, the *)
(* per-connection protocol and the termination-signal handler.             *)
(*                                                                         *)
(* Text is modelled as sequences: a request payload is a sequence of       *)
(* one-character strings (bytes), a reply is a sequence of text pieces     *)
(* (the digits of a voltage, or "ERROR: " followed by the reason).         *)
(***************************************************************************)
EXTENDS Integers, Sequences, FiniteSets, TLC

\* ------------------------------------------------------------------------
\* Bounds of the model
\* ------------------------------------------------------------------------

\* longest request payload that a client sends, in bytes
MaxLen == 3

\* number of client connections followed through the listening socket
MaxClients == 2

\* ------------------------------------------------------------------------
\* Input alphabets
\* ------------------------------------------------------------------------

\* "xFF" stands for a byte that is not valid UTF-8
BadByte == "xFF"

DigitChars == {"0", "7", "8"}

Bytes == DigitChars \cup {"+", "-", " ", "_", ".", BadByte}

RECURSIVE SeqsUpTo(_, _)
SeqsUpTo(S, n) ==
    IF n = 0 THEN {<<>>}
    ELSE LET shorter == SeqsUpTo(S, n - 1)
         IN  shorter \cup {Append(s, c) : s \in {t \in shorter : Len(t) = n - 1}, c \in S}

Payloads == SeqsUpTo(Bytes, MaxLen)

\* values offered on the command line for --hwversion ("missing": not given)
HwVersionArgs == {"2.2", "5.1", "7.1", "9.9", "missing"}

\* values offered for --loglevel, inside the documented range 0-5
LogLevelArgs == {0, 3}

\* live samples of the converter, in units of 10 microvolts (1.65 V = 165000)
Samples == {0, 7, 165000, 329996}

\* messages of the exceptions the hardware layer raises
ErrorMessages == {"SPI transfer failed", ""}

\* classes of the exceptions the hardware layer raises during a read
ReadErrorKinds == {"RuntimeError", "OSError", "ValueError"}

NoChannel == -100
NoSample == -1
NoText == <<"(none)">>
NoLog == [message |-> "(none)", level |-> -1, severity |-> "(none)"]
NoStatus == -1
NoErr == [kind |-> "(none)", msg |-> "(none)"]

\* ------------------------------------------------------------------------
\* Request Protocol: bytes.decode('utf-8'), str.strip(), int()
\* ------------------------------------------------------------------------

\* data.decode('utf-8') raises UnicodeDecodeError (a ValueError) on a bad byte
Decodable(data) == \A k \in 1..Len(data) : data[k] # BadByte

RECURSIVE LStrip(_)
LStrip(s) == IF s # <<>> /\ Head(s) = " " THEN LStrip(Tail(s)) ELSE s

RECURSIVE RStrip(_)
RStrip(s) ==
    IF s # <<>> /\ s[Len(s)] = " " THEN RStrip(SubSeq(s, 1, Len(s) - 1)) ELSE s

Strip(s) == RStrip(LStrip(s))

IsDigit(c) == c \in {"0", "1", "2", "3", "4", "5", "6", "7", "8", "9"}

DigitValue(c) ==
    CASE c = "0" -> 0 [] c = "1" -> 1 [] c = "2" -> 2 [] c = "3" -> 3
      [] c = "4" -> 4 [] c = "5" -> 5 [] c = "6" -> 6 [] c = "7" -> 7
      [] c = "8" -> 8 [] c = "9" -> 9

\* the digit part of an int() literal: digits, single underscores between digits
IntBodyOk(s) ==
    /\ s # <<>>
    /\ \A k \in 1..Len(s) :
          \/ IsDigit(s[k])
          \/ /\ s[k] = "_"
             /\ k > 1 /\ k < Len(s)
             /\ IsDigit(s[k - 1]) /\ IsDigit(s[k + 1])

RECURSIVE IntBodyValue(_, _)
IntBodyValue(s, acc) ==
    IF s = <<>> THEN acc
    ELSE IF Head(s) = "_" THEN IntBodyValue(Tail(s), acc)
    ELSE IntBodyValue(Tail(s), 10 * acc + DigitValue(Head(s)))

IntBody(s) == IF s # <<>> /\ Head(s) \in {"+", "-"} THEN Tail(s) ELSE s

\* variant: a text that is empty after trimming is taken to be 0
IntOkEmptyIsZero(s) == Strip(s) = <<>> \/ IntBodyOk(IntBody(Strip(s)))

\* int(channel_str) succeeds
IntOk(s) == IntBodyOk(IntBody(Strip(s)))

\* int(channel_str), for a text on which it succeeds
IntValue(s) ==
    LET t == Strip(s)
        v == IntBodyValue(IntBody(t), 0)
    IN  IF t # <<>> /\ Head(t) = "-" THEN 0 - v ELSE v

\* ------------------------------------------------------------------------
\* Reply formatting: f"{voltage:.4f}" and the error texts
\* ------------------------------------------------------------------------

DigitChar(d) ==
    CASE d = 0 -> "0" [] d = 1 -> "1" [] d = 2 -> "2" [] d = 3 -> "3"
      [] d = 4 -> "4" [] d = 5 -> "5" [] d = 6 -> "6" [] d = 7 -> "7"
      [] d = 8 -> "8" [] d = 9 -> "9"

RECURSIVE DecimalText(_)
DecimalText(n) ==
    IF n < 10 THEN <<DigitChar(n)>>
    ELSE Append(DecimalText(n \div 10), DigitChar(n % 10))

\* a sample (10 microvolt units) rounded to 4 decimals: whole part, ".", 4 digits
FormatVoltage(v) ==
    LET n == (v + 5) \div 10
        f == n % 10000
    IN  DecimalText(n \div 10000) \o
        <<".", DigitChar(f \div 1000), DigitChar((f \div 100) % 10),
               DigitChar((f \div 10) % 10), DigitChar(f % 10)>>

ErrRange == <<"ERROR: ", "Channel must be 0-7">>
ErrFormat == <<"ERROR: ", "Invalid channel format">>
ErrOther(msg) == <<"ERROR: ", msg>>

NumChannels == 8

\* variant: the lower bound is not tested
ChannelInRangeNoLower(channel) == channel <= 7

\* 0 <= channel <= 7
ChannelInRange(channel) == 0 <= channel /\ channel <= 7

\* variant: the first channel is read whatever the index
ChannelPinFirst(chans, channel) == chans[1]

\* channels[channel]: the pin read by indexing the channel list (Python list
\* indexing, a negative index counts from the end)
ChannelPin(chans, channel) ==
    IF channel >= 0 THEN chans[channel + 1] ELSE chans[Len(chans) + channel + 1]

\* ------------------------------------------------------------------------
\* State
\* ------------------------------------------------------------------------

VARIABLES
    argv,        \* command line: [hwversion, loglevel]
    pc,          \* position of the main thread in main()
    loglevel,    \* global loglevel
    hwversion,   \* main's hwversion
    adccs,       \* chip-select pin held by the daemon
    spi,         \* SPI bus handle
    mcp,         \* MCP3008 device
    channels,    \* global channels: the pins of the AnalogIn objects, in order
    sockFile,    \* file at socket_file: "absent", "stale" or "bound"
    sockMode,    \* permission bits of that file
    server,      \* listening socket: "none", "created", "bound", "listening", "closed"
    conn,        \* accepted connection: "none", "open", "closed"
    data,        \* bytes returned by conn.recv
    channel,     \* int(channel_str)
    voltage,     \* sample returned by channels[channel].voltage
    response,    \* reply text built by the handler
    wire,        \* reply bytes written to the current connection
    events,      \* socket and hardware operations done for the current connection
    outcome,     \* how the last connection ended
    readErr,     \* exception raised by the hardware read of this request
    hwFailed,    \* some hardware read has raised since start-up
    initError,   \* a step of hardware initialisation has raised
    lastLog,     \* last record emitted by log_message_json
    frame,       \* position of main() when the signal handler ran
    exitStatus   \* exit status of the process

\* the clients of the socket and the kernel's side of their connections
VARIABLES
    cphase,      \* per client: "idle", "connected" or "closed"
    wrote,       \* per client: the writes it has made, in order
    inbuf,       \* per client: bytes written and not yet received by the daemon
    backlog,     \* connections waiting on the listening socket, oldest first
    arrivals,    \* clients in the order their connections were queued
    accepted,    \* clients in the order their connections were accepted
    cur,         \* client at the other end of conn
    open,        \* clients whose accepted connection is open on the daemon's side
    recvs,       \* per client: receives made by the daemon on its connection
    answered     \* per client: replies written by the daemon on its connection

\* the companion client (PiController/adc-daemon/adc.py)
VARIABLES
    cargs,       \* command line: [channel, loop]
    cpc,         \* position of the client in main() and get_adc_voltage()
    cchannels,   \* main's channels: the indices to query, in order
    idx,         \* position of the for loop in cchannels
    sent,        \* bytes written by sock.sendall in the current call
    craw,        \* bytes returned by sock.recv in the current call
    cfault,      \* exception caught in the current call of get_adc_voltage
    ret,         \* value returned by get_adc_voltage: None or <<voltage>>
    thisreading, \* array('d') of the readings of this cycle
    lastreading, \* array('d') of the readings of the cycle before
    linecount,   \* lines printed in loop mode
    cout,        \* what the last print showed
    cexit        \* how the client process ended

\* two daemon instances started on the same socket path
VARIABLES
    ipc,         \* per instance: position in main() or in signal_handler()
    ihw,         \* per instance: the chip-select pin it holds
    isaw,        \* per instance: result of its last os.path.exists(socket_file)
    ifr,         \* per instance: position of main() when the signal arrived
    path,        \* whose socket is bound at socket_file: "absent", "stale", instance
    lost,        \* live instances whose socket file another instance removed
    lostTo,      \* the steps that did so: "startup", "shutdown"
    reached      \* instance that answered the last client connection

netVars == <<cphase, wrote, inbuf, backlog, arrivals, accepted, cur, open, recvs,
             answered>>

cliVars == <<cargs, cpc, cchannels, idx, sent, craw, cfault, ret, thisreading,
             lastreading, linecount, cout, cexit>>

dupVars == <<ipc, ihw, isaw, ifr, path, lost, lostTo, reached>>

aloneVars == <<cliVars, dupVars>>

envVars == <<netVars, aloneVars>>

daemonVars == <<argv, pc, loglevel, hwversion, adccs, spi, mcp, channels, sockFile,
          sockMode, server, conn, data, channel, voltage, response, wire,
          events, outcome, readErr, hwFailed, initError, lastLog, frame, exitStatus>>

vars == <<daemonVars, envVars>>

hwVars == <<adccs, spi, mcp, channels>>
fileVars == <<sockFile, sockMode>>
connVars == <<conn, data, channel, voltage, response, readErr, wire, events>>
reqVars == <<data, channel, voltage, response, readErr>>

NoPin == "none"
NoChan == -1
Ev(op, ch) == [op |-> op, ch |-> ch]

\* log_message_json(message, level, severity): the record emitted, if any
LogMessageJson(last, lvl, message, level, severity) ==
    IF lvl >= level
    THEN [message |-> message, level |-> level, severity |-> severity]
    ELSE last

\* module level: version, loglevel, socket_file, channels = [], handlers installed
DaemonInit ==
    /\ argv \in [hwversion : HwVersionArgs, loglevel : LogLevelArgs]
    /\ sockFile \in {"absent", "stale"}
    /\ sockMode = IF sockFile = "stale" THEN "0755" ELSE "none"
    /\ pc = "parse_arguments"
    /\ loglevel = 3
    /\ hwversion = "unset"
    /\ adccs = NoPin
    /\ spi = "none"
    /\ mcp = "none"
    /\ channels = <<>>
    /\ server = "none"
    /\ conn = "none"
    /\ data = <<>>
    /\ channel = NoChannel
    /\ voltage = NoSample
    /\ response = NoText
    /\ readErr = NoErr
    /\ wire = NoText
    /\ events = <<>>
    /\ outcome = "none"
    /\ hwFailed = FALSE
    /\ initError = FALSE
    /\ lastLog = NoLog
    /\ frame = "none"
    /\ exitStatus = NoStatus

\* the process ends: its sockets are closed by the kernel
Exit(status) ==
    /\ pc' = "exited"
    /\ exitStatus' = status
    /\ server' = IF server = "none" THEN "none" ELSE "closed"
    /\ conn' = IF conn = "open" THEN "closed" ELSE conn

\* ------------------------------------------------------------------------
\* Start-up
\* ------------------------------------------------------------------------

\* args = parse_arguments(); --hwversion is required, choices 2.2, 5.1, 7.1
ParseArguments ==
    /\ pc = "parse_arguments"
    /\ IF argv.hwversion \in {"2.2", "5.1", "7.1"}
       THEN /\ loglevel' = argv.loglevel
            /\ hwversion' = argv.hwversion
            /\ pc' = "select_cs"
            /\ UNCHANGED <<exitStatus, server, conn>>
       ELSE /\ Exit(2)
            /\ UNCHANGED <<loglevel, hwversion>>
    /\ UNCHANGED <<argv, hwVars, fileVars, reqVars, wire, events, outcome,
                   hwFailed, initError, lastLog, frame>>

\* adccs = digitalio.DigitalInOut(board.D26 | board.D25), outside the try block
CsPin(hw) == IF hw \in {"2.2", "5.1"} THEN "D26" ELSE "D25"

SelectCS ==
    /\ pc = "select_cs"
    /\ \E ok \in BOOLEAN :
          IF ok
          THEN /\ adccs' = CsPin(hwversion)
               /\ lastLog' = LogMessageJson(lastLog, loglevel, "Starting ADC daemon", 2, "info")
               /\ pc' = "open_spi"
               /\ UNCHANGED <<exitStatus, server, conn, initError>>
          ELSE \* the exception is not caught: traceback, exit status 1
               /\ initError' = TRUE
               /\ Exit(1)
               /\ UNCHANGED <<adccs, lastLog>>
    /\ UNCHANGED <<argv, loglevel, hwversion, spi, mcp, channels, fileVars,
                   reqVars, wire, events, outcome, hwFailed, frame>>

\* variant: the failure is logged and start-up goes on (no exit)
InitFailedContinue ==
    /\ initError' = TRUE
    /\ lastLog' = LogMessageJson(lastLog, loglevel, "error", 0, "exception")
    /\ pc' = "cleanup"
    /\ UNCHANGED <<exitStatus, server, conn>>

\* except Exception as e: log_message_json({"error": str(e)}, 0, "exception"); exit(1)
InitFailed ==
    /\ initError' = TRUE
    /\ lastLog' = LogMessageJson(lastLog, loglevel, "error", 0, "exception")
    /\ Exit(1)

\* spi = busio.SPI(...)
OpenSPI ==
    /\ pc = "open_spi"
    /\ \E ok \in BOOLEAN :
          IF ok
          THEN /\ spi' = "open"
               /\ pc' = "init_mcp"
               /\ UNCHANGED <<exitStatus, server, conn, initError, lastLog>>
          ELSE /\ InitFailed
               /\ UNCHANGED spi
    /\ UNCHANGED <<argv, loglevel, hwversion, adccs, mcp, channels, fileVars,
                   reqVars, wire, events, outcome, hwFailed, frame>>

\* mcp = MCP.MCP3008(spi, adccs)
InitMCP ==
    /\ pc = "init_mcp"
    /\ \E ok \in BOOLEAN :
          IF ok
          THEN /\ mcp' = "MCP3008"
               /\ pc' = "create_channels"
               /\ UNCHANGED <<exitStatus, server, conn, initError, lastLog>>
          ELSE /\ InitFailed
               /\ UNCHANGED mcp
    /\ UNCHANGED <<argv, loglevel, hwversion, adccs, spi, channels, fileVars,
                   reqVars, wire, events, outcome, hwFailed, frame>>

\* channels = [AnalogIn(mcp, MCP.P0), ..., AnalogIn(mcp, MCP.P7)]
ChannelList == [k \in 1..NumChannels |-> k - 1]

CreateChannels ==
    /\ pc = "create_channels"
    /\ \E ok \in BOOLEAN :
          IF ok
          THEN /\ channels' = ChannelList
               /\ lastLog' = LogMessageJson(lastLog, loglevel, "ADC channels initialized", 3, "info")
               /\ pc' = "cleanup"
               /\ UNCHANGED <<exitStatus, server, conn, initError>>
          ELSE /\ InitFailed
               /\ UNCHANGED channels
    /\ UNCHANGED <<argv, loglevel, hwversion, adccs, spi, mcp, fileVars,
                   reqVars, wire, events, outcome, hwFailed, frame>>

\* if os.path.exists(socket_file): os.unlink(socket_file)
Unlink(file) == IF file # "absent" THEN "absent" ELSE file

CleanupSocketFile ==
    /\ pc = "cleanup"
    /\ sockFile' = Unlink(sockFile)
    /\ sockMode' = "none"
    /\ pc' = "socket"
    /\ UNCHANGED <<argv, loglevel, hwversion, hwVars, server, connVars, outcome,
                   hwFailed, initError, lastLog, frame, exitStatus>>

\* server = socket.socket(socket.AF_UNIX, socket.SOCK_STREAM)
CreateSocket ==
    /\ pc = "socket"
    /\ server' = "created"
    /\ pc' = "bind"
    /\ UNCHANGED <<argv, loglevel, hwversion, hwVars, fileVars, connVars, outcome,
                   hwFailed, initError, lastLog, frame, exitStatus>>

\* server.bind(socket_file): the file is created with the umask's permissions
Bind ==
    /\ pc = "bind"
    /\ sockFile = "absent"
    /\ sockFile' = "bound"
    /\ sockMode' = "0755"
    /\ server' = "bound"
    /\ pc' = "chmod"
    /\ UNCHANGED <<argv, loglevel, hwversion, hwVars, connVars, outcome,
                   hwFailed, initError, lastLog, frame, exitStatus>>

\* variant: the file is opened to its owner only
ChmodOwnerOnly ==
    /\ pc = "chmod"
    /\ sockMode' = "0600"
    /\ pc' = "listen"
    /\ UNCHANGED <<argv, loglevel, hwversion, hwVars, sockFile, server, connVars,
                   outcome, hwFailed, initError, lastLog, frame, exitStatus>>

\* os.chmod(socket_file, 0o666)
Chmod ==
    /\ pc = "chmod"
    /\ sockMode' = "0666"
    /\ pc' = "listen"
    /\ UNCHANGED <<argv, loglevel, hwversion, hwVars, sockFile, server, connVars,
                   outcome, hwFailed, initError, lastLog, frame, exitStatus>>

\* server.listen(5); log_message_json("Listening on socket ...", 2, "info")
Listen ==
    /\ pc = "listen"
    /\ server' = "listening"
    /\ lastLog' = LogMessageJson(lastLog, loglevel, "Listening on socket", 2, "info")
    /\ pc' = "accept"
    /\ UNCHANGED <<argv, loglevel, hwversion, hwVars, fileVars, connVars, outcome,
                   hwFailed, initError, frame, exitStatus>>

\* ------------------------------------------------------------------------
\* Accept loop
\* ------------------------------------------------------------------------

\* variant: an exception in the loop is logged and ends the process
RaisedFatal ==
    /\ conn' = IF conn = "open" THEN "closed" ELSE conn
    /\ lastLog' = LogMessageJson(lastLog, loglevel, "error", 0, "exception")
    /\ outcome' = "exception"
    /\ pc' = "exited"

\* variant: the connection is not closed when an exception leaves the handler
RaisedNoClose ==
    /\ conn' = conn
    /\ lastLog' = LogMessageJson(lastLog, loglevel, "error", 0, "exception")
    /\ outcome' = "exception"
    /\ pc' = "sleep"

\* an exception leaves the with block (conn is closed) and reaches
\* except Exception as e: log_message_json({"error": str(e)}, 0, "exception")
Raised ==
    /\ conn' = IF conn = "open" THEN "closed" ELSE conn
    /\ lastLog' = LogMessageJson(lastLog, loglevel, "error", 0, "exception")
    /\ outcome' = "exception"
    /\ pc' = "sleep"

\* variant: the next connection is accepted while a request is awaited
AcceptAnyTime ==
    /\ pc \in {"accept", "recv"}
    /\ \E ok \in BOOLEAN :
          IF ok
          THEN /\ conn' = "open"
               /\ events' = <<Ev("accept", NoChan)>>
               /\ outcome' = "none"
               /\ pc' = "recv"
               /\ UNCHANGED lastLog
          ELSE /\ Raised
               /\ events' = <<>>
    /\ wire' = NoText
    /\ data' = <<>>
    /\ channel' = NoChannel
    /\ voltage' = NoSample
    /\ response' = NoText
    /\ readErr' = NoErr
    /\ UNCHANGED <<argv, loglevel, hwversion, hwVars, fileVars, server,
                   hwFailed, initError, frame, exitStatus>>

\* conn, _ = server.accept(); the names bound per request are dead here and
\* are bound again before they are read
Accept ==
    /\ pc = "accept"
    /\ \E ok \in BOOLEAN :
          IF ok
          THEN /\ conn' = "open"
               /\ events' = <<Ev("accept", NoChan)>>
               /\ outcome' = "none"
               /\ pc' = "recv"
               /\ UNCHANGED lastLog
          ELSE /\ Raised
               /\ events' = <<>>
    /\ wire' = NoText
    /\ data' = <<>>
    /\ channel' = NoChannel
    /\ voltage' = NoSample
    /\ response' = NoText
    /\ readErr' = NoErr
    /\ UNCHANGED <<argv, loglevel, hwversion, hwVars, fileVars, server,
                   hwFailed, initError, frame, exitStatus>>

\* data = conn.recv(1024): the bytes that have arrived, one of P; b"" when the
\* peer has closed
RecvFrom(P) ==
    /\ pc = "recv"
    /\ \/ \E d \in P :
             /\ data' = d
             /\ events' = Append(events, Ev("recv", NoChan))
             /\ pc' = "check"
             /\ UNCHANGED <<conn, lastLog, outcome>>
       \/ /\ Raised
          /\ UNCHANGED <<data, events>>
    /\ UNCHANGED <<argv, loglevel, hwversion, hwVars, fileVars, server, channel,
                   voltage, response, readErr, wire, hwFailed, initError, frame,
                   exitStatus>>

\* a receive from a client that may have written any payload
Recv == RecvFrom(Payloads)

\* variant: an empty payload is parsed like any other
CheckDataNoDrop ==
    /\ pc = "check"
    /\ pc' = "parse"
    /\ UNCHANGED <<argv, loglevel, hwversion, hwVars, fileVars, server, connVars,
                   outcome, hwFailed, initError, lastLog, frame, exitStatus>>

\* variant: the connection with an empty payload is left open
CheckDataNoClose ==
    /\ pc = "check"
    /\ IF data = <<>>
       THEN /\ outcome' = "dropped"
            /\ pc' = "accept"
            /\ UNCHANGED conn
       ELSE /\ pc' = "parse"
            /\ UNCHANGED <<conn, outcome>>
    /\ UNCHANGED <<argv, loglevel, hwversion, hwVars, fileVars, server, reqVars,
                   wire, events, hwFailed, initError, lastLog, frame, exitStatus>>

\* if not data: continue
CheckData ==
    /\ pc = "check"
    /\ IF data = <<>>
       THEN /\ conn' = "closed"
            /\ outcome' = "dropped"
            /\ pc' = "accept"
       ELSE /\ pc' = "parse"
            /\ UNCHANGED <<conn, outcome>>
    /\ UNCHANGED <<argv, loglevel, hwversion, hwVars, fileVars, server, reqVars,
                   wire, events, hwFailed, initError, lastLog, frame, exitStatus>>

\* channel_str = data.decode('utf-8').strip(); channel = int(channel_str);
\* if 0 <= channel <= 7: ... else: response = "ERROR: Channel must be 0-7"
\* except ValueError: response = "ERROR: Invalid channel format"
ParseRequest ==
    /\ pc = "parse"
    /\ IF Decodable(data) /\ IntOk(data)
       THEN /\ channel' = IntValue(data)
            /\ lastLog' = LogMessageJson(lastLog, loglevel, "Received request", 3, "info")
            /\ IF ChannelInRange(channel')
               THEN /\ pc' = "read"
                    /\ UNCHANGED response
               ELSE /\ response' = ErrRange
                    /\ pc' = "send"
       ELSE /\ response' = ErrFormat
            /\ pc' = "send"
            /\ UNCHANGED <<channel, lastLog>>
    /\ UNCHANGED <<argv, loglevel, hwversion, hwVars, fileVars, server, conn, data,
                   voltage, readErr, wire, events, outcome, hwFailed, initError,
                   frame, exitStatus>>

\* variant: every exception of the read is reported as a format error
ReadErrorResponseFormat(kind, msg) == ErrFormat

\* the reply built when channels[channel].voltage raises
ReadErrorResponse(kind, msg) ==
    IF kind = "ValueError" THEN ErrFormat ELSE ErrOther(msg)

\* voltage = channels[channel].voltage; response = f"{voltage:.4f}"
\* except ValueError: ...  except Exception as e: response = f"ERROR: {str(e)}"
ReadVoltage ==
    /\ pc = "read"
    /\ events' = Append(events, Ev("read", ChannelPin(channels, channel)))
    /\ \/ \E v \in Samples :
             /\ voltage' = v
             /\ response' = FormatVoltage(v)
             /\ lastLog' = LogMessageJson(lastLog, loglevel, "Channel voltage", 3, "info")
             /\ UNCHANGED <<readErr, hwFailed>>
       \/ \E kind \in ReadErrorKinds, msg \in ErrorMessages :
             /\ readErr' = [kind |-> kind, msg |-> msg]
             /\ response' = ReadErrorResponse(kind, msg)
             /\ hwFailed' = TRUE
             /\ UNCHANGED <<voltage, lastLog>>
    /\ pc' = "send"
    /\ UNCHANGED <<argv, loglevel, hwversion, hwVars, fileVars, server, conn, data,
                   channel, wire, outcome, initError, frame, exitStatus>>

\* variant: after the reply the connection stays open for a next request
SendKeepAlive ==
    /\ pc = "send"
    /\ \/ /\ wire' = response
          /\ events' = Append(events, Ev("send", NoChan))
          /\ outcome' = "replied"
          /\ pc' = "recv"
          /\ UNCHANGED <<conn, lastLog>>
       \/ /\ Raised
          /\ UNCHANGED <<wire, events>>
    /\ UNCHANGED <<argv, loglevel, hwversion, hwVars, fileVars, server, reqVars,
                   hwFailed, initError, frame, exitStatus>>

\* conn.sendall(response.encode('utf-8')), then the with block closes conn
Send ==
    /\ pc = "send"
    /\ \/ /\ wire' = response
          /\ events' = Append(events, Ev("send", NoChan))
          /\ conn' = "closed"
          /\ outcome' = "replied"
          /\ pc' = "accept"
          /\ UNCHANGED lastLog
       \/ /\ Raised
          /\ UNCHANGED <<wire, events>>
    /\ UNCHANGED <<argv, loglevel, hwversion, hwVars, fileVars, server, reqVars,
                   hwFailed, initError, frame, exitStatus>>

\* variant: after the pause the socket file is removed and bound again
SleepRebind ==
    /\ pc = "sleep"
    /\ pc' = "accept"
    /\ sockFile' = "bound"
    /\ sockMode' = "0755"
    /\ UNCHANGED <<argv, loglevel, hwversion, hwVars, server, connVars,
                   outcome, hwFailed, initError, lastLog, frame, exitStatus>>

\* time.sleep(0.1)
Sleep ==
    /\ pc = "sleep"
    /\ pc' = "accept"
    /\ UNCHANGED <<argv, loglevel, hwversion, hwVars, fileVars, server, connVars,
                   outcome, hwFailed, initError, lastLog, frame, exitStatus>>

\* ------------------------------------------------------------------------
\* Termination signal
\* ------------------------------------------------------------------------

\* variant: the handler exits without removing the socket file
SignalHandlerNoUnlink ==
    /\ pc # "exited"
    /\ frame' = pc
    /\ lastLog' = LogMessageJson(lastLog, loglevel, "Received termination signal", 2, "info")
    /\ Exit(0)
    /\ UNCHANGED <<argv, loglevel, hwversion, hwVars, fileVars, reqVars, wire,
                   events, outcome, hwFailed, initError>>

\* variant: the handler writes a reply that is ready before it exits
SignalHandlerDrain ==
    /\ pc # "exited"
    /\ frame' = pc
    /\ lastLog' = LogMessageJson(lastLog, loglevel, "Received termination signal", 2, "info")
    /\ sockFile' = Unlink(sockFile)
    /\ sockMode' = IF sockFile # "absent" THEN "none" ELSE sockMode
    /\ wire' = IF pc = "send" THEN response ELSE wire
    /\ events' = IF pc = "send" THEN Append(events, Ev("send", NoChan)) ELSE events
    /\ Exit(0)
    /\ UNCHANGED <<argv, loglevel, hwversion, hwVars, reqVars, outcome, hwFailed,
                   initError>>

\* signal_handler(sig, frame), run by the main thread between two steps of
\* main(): log, remove the socket file if present, sys.exit(0). SystemExit is
\* not an Exception, so no except clause of main() catches it.
SignalHandler ==
    /\ pc # "exited"
    /\ frame' = pc
    /\ lastLog' = LogMessageJson(lastLog, loglevel, "Received termination signal", 2, "info")
    /\ sockFile' = Unlink(sockFile)
    /\ sockMode' = IF sockFile # "absent" THEN "none" ELSE sockMode
    /\ Exit(0)
    /\ UNCHANGED <<argv, loglevel, hwversion, hwVars, reqVars, wire, events,
                   outcome, hwFailed, initError>>

\* ------------------------------------------------------------------------
\* Clients and connections
\* ------------------------------------------------------------------------

Clients == 1..MaxClients

NoClient == 0

\* no client has connected
NetIdle ==
    /\ cphase = [c \in Clients |-> "idle"]
    /\ wrote = [c \in Clients |-> <<>>]
    /\ inbuf = [c \in Clients |-> <<>>]
    /\ backlog = <<>>
    /\ arrivals = <<>>
    /\ accepted = <<>>
    /\ cur = NoClient
    /\ open = {}
    /\ recvs = [c \in Clients |-> 0]
    /\ answered = [c \in Clients |-> 0]

\* get_adc_voltage's None
None == <<>>

AllArg == <<"a", "l", "l">>

\* the client is not run
ClientIdle ==
    /\ cargs = [channel |-> AllArg, loop |-> FALSE]
    /\ cpc = "validate"
    /\ cchannels = <<>>
    /\ idx = 0
    /\ sent = NoText
    /\ craw = NoText
    /\ cfault = "none"
    /\ ret = None
    /\ thisreading = [k \in 0..(NumChannels - 1) |-> 0]
    /\ lastreading = [k \in 0..(NumChannels - 1) |-> 0]
    /\ linecount = 0
    /\ cout = "none"
    /\ cexit = NoStatus

Instances == {"A", "B"}

\* no instance is started
DupIdle ==
    /\ ipc = [i \in Instances |-> "off"]
    /\ ihw = [i \in Instances |-> NoPin]
    /\ isaw = [i \in Instances |-> FALSE]
    /\ ifr = [i \in Instances |-> "none"]
    /\ path = "absent"
    /\ lost = {}
    /\ lostTo = {}
    /\ reached = "none"

\* ------------------------------------------------------------------------
\* The daemon alone: its clients are the payloads and faults of each step
\* ------------------------------------------------------------------------

Init == DaemonInit /\ NetIdle /\ ClientIdle /\ DupIdle

Next ==
    \/ ParseArguments /\ UNCHANGED envVars
    \/ SelectCS /\ UNCHANGED envVars
    \/ OpenSPI /\ UNCHANGED envVars
    \/ InitMCP /\ UNCHANGED envVars
    \/ CreateChannels /\ UNCHANGED envVars
    \/ CleanupSocketFile /\ UNCHANGED envVars
    \/ CreateSocket /\ UNCHANGED envVars
    \/ Bind /\ UNCHANGED envVars
    \/ Chmod /\ UNCHANGED envVars
    \/ Listen /\ UNCHANGED envVars
    \/ Accept /\ UNCHANGED envVars
    \/ Recv /\ UNCHANGED envVars
    \/ CheckData /\ UNCHANGED envVars
    \/ ParseRequest /\ UNCHANGED envVars
    \/ ReadVoltage /\ UNCHANGED envVars
    \/ Send /\ UNCHANGED envVars
    \/ Sleep /\ UNCHANGED envVars
    \/ SignalHandler /\ UNCHANGED envVars

Spec == Init /\ [][Next]_vars

\* ------------------------------------------------------------------------
\* The daemon with its clients: connections queue on the listening socket
\* (listen(5)), accept takes the oldest, recv returns the bytes that have
\* arrived on the stream, a write to a closed peer fails
\* ------------------------------------------------------------------------

\* server.listen(5)
ListenBacklog == 5

\* what a client writes first, and what it may write after that
FirstWrites == {<<"7">>, <<"8">>}
SecondWrites == {<<"0">>}

NetInit ==
    /\ DaemonInit
    /\ argv = [hwversion |-> "7.1", loglevel |-> 3]
    /\ NetIdle
    /\ ClientIdle
    /\ DupIdle

LastOp == IF events' # events /\ events' # <<>> THEN events'[Len(events')].op ELSE "none"

\* the connections open on the daemon's side after a step of the daemon:
\* exit closes them all, closing conn closes the current one
OpenAfter(o) ==
    IF pc' = "exited" THEN {}
    ELSE IF conn' = "closed" THEN o \ {cur}
    ELSE o

\* what a step of the daemon that is neither accept nor recv does to the
\* connections
NetTrack ==
    /\ open' = OpenAfter(open)
    /\ answered' = IF LastOp = "send"
                   THEN [answered EXCEPT ![cur] = @ + 1] ELSE answered
    /\ UNCHANGED <<cphase, wrote, inbuf, backlog, arrivals, accepted, cur, recvs>>
    /\ UNCHANGED aloneVars

\* sock.connect(socket_path): the connection is queued on the listening socket
ClientConnect(c) ==
    /\ cphase[c] = "idle"
    /\ server = "listening"
    /\ Len(backlog) < ListenBacklog
    /\ cphase' = [cphase EXCEPT ![c] = "connected"]
    /\ backlog' = Append(backlog, c)
    /\ arrivals' = Append(arrivals, c)
    /\ UNCHANGED <<daemonVars, wrote, inbuf, accepted, cur, open, recvs, answered>>
    /\ UNCHANGED aloneVars

\* a client writes a request on its connection, accepted or still queued
ClientWrite(c) ==
    /\ cphase[c] = "connected"
    /\ server = "listening"
    /\ c \in open \/ recvs[c] = 0
    /\ \E w \in (IF wrote[c] = <<>> THEN FirstWrites
                 ELSE IF Len(wrote[c]) = 1 THEN SecondWrites ELSE {}) :
          /\ wrote' = [wrote EXCEPT ![c] = Append(@, w)]
          /\ inbuf' = [inbuf EXCEPT ![c] = @ \o w]
    /\ UNCHANGED <<daemonVars, cphase, backlog, arrivals, accepted, cur, open, recvs,
                   answered>>
    /\ UNCHANGED aloneVars

\* a client closes its end
ClientClose(c) ==
    /\ cphase[c] = "connected"
    /\ cphase' = [cphase EXCEPT ![c] = "closed"]
    /\ UNCHANGED <<daemonVars, wrote, inbuf, backlog, arrivals, accepted, cur, open,
                   recvs, answered>>
    /\ UNCHANGED aloneVars

\* accept returns the oldest queued connection, and blocks while none is queued
NetAccept ==
    /\ backlog # <<>>
    /\ Accept
    /\ IF pc' = "recv"
       THEN /\ cur' = Head(backlog)
            /\ backlog' = Tail(backlog)
            /\ accepted' = Append(accepted, Head(backlog))
            /\ open' = (IF conn = "open" THEN open ELSE open \ {cur}) \cup {Head(backlog)}
       ELSE /\ open' = OpenAfter(open)
            /\ UNCHANGED <<cur, backlog, accepted>>
    /\ UNCHANGED <<cphase, wrote, inbuf, arrivals, recvs, answered>>
    /\ UNCHANGED aloneVars

\* recv blocks until bytes have arrived or the peer has closed; it returns all
\* the bytes that have arrived, and fails only on a peer that is gone
NetRecv ==
    /\ pc = "recv"
    /\ inbuf[cur] # <<>> \/ cphase[cur] = "closed"
    /\ RecvFrom({inbuf[cur]})
    /\ pc' = "sleep" => cphase[cur] = "closed"
    /\ inbuf' = IF LastOp = "recv" THEN [inbuf EXCEPT ![cur] = <<>>] ELSE inbuf
    /\ recvs' = IF LastOp = "recv" THEN [recvs EXCEPT ![cur] = @ + 1] ELSE recvs
    /\ open' = OpenAfter(open)
    /\ UNCHANGED <<cphase, wrote, backlog, arrivals, accepted, cur, answered>>
    /\ UNCHANGED aloneVars

\* sendall reaches a peer that is connected and fails on one that has closed
NetSend ==
    /\ Send
    /\ (LastOp = "send") <=> (cphase[cur] = "connected")
    /\ NetTrack

NetNext ==
    \/ ParseArguments /\ UNCHANGED envVars
    \/ SelectCS /\ UNCHANGED envVars
    \/ OpenSPI /\ UNCHANGED envVars
    \/ InitMCP /\ UNCHANGED envVars
    \/ CreateChannels /\ UNCHANGED envVars
    \/ CleanupSocketFile /\ UNCHANGED envVars
    \/ CreateSocket /\ UNCHANGED envVars
    \/ Bind /\ UNCHANGED envVars
    \/ Chmod /\ UNCHANGED envVars
    \/ Listen /\ UNCHANGED envVars
    \/ NetAccept
    \/ NetRecv
    \/ CheckData /\ NetTrack
    \/ ParseRequest /\ NetTrack
    \/ ReadVoltage /\ NetTrack
    \/ NetSend
    \/ Sleep /\ NetTrack
    \/ SignalHandler /\ NetTrack
    \/ \E c \in Clients : ClientConnect(c)
    \/ \E c \in Clients : ClientWrite(c)
    \/ \E c \in Clients : ClientClose(c)

SpecNet == NetInit /\ [][NetNext]_vars

\* the steps of the accept loop; the one thread of the daemon takes the next
\* of them whenever it is not blocked in accept or recv
DaemonLoop ==
    \/ NetAccept
    \/ NetRecv
    \/ CheckData /\ NetTrack
    \/ ParseRequest /\ NetTrack
    \/ ReadVoltage /\ NetTrack
    \/ NetSend
    \/ Sleep /\ NetTrack

FairSpecNet == SpecNet /\ WF_vars(DaemonLoop)

\* ------------------------------------------------------------------------
\* The client (adc.py): argument validation, get_adc_voltage, the two modes
\* ------------------------------------------------------------------------

\* polling cycles followed in loop mode
MaxCycles == 2

\* values offered on the command line for the channel argument
ChannelArgs ==
    {AllArg, <<"0">>, <<"7">>, <<"8">>, <<"-", "7">>, <<"0", "_", "7">>, <<".">>}

\* the reply of the daemon's handler to a payload (the try block of the accept
\* loop), for the samples the converter can give
HandleRequest(payload, samples) ==
    IF ~Decodable(payload) \/ ~IntOk(payload) THEN {ErrFormat}
    ELSE IF ChannelInRange(IntValue(payload))
         THEN {FormatVoltage(v) : v \in samples}
              \cup {ErrOther(m) : m \in ErrorMessages}
              \cup {ErrFormat}
         ELSE {ErrRange}

\* the samples behind the voltages the client is shown
ClientSamples == {165000}

\* replies of a peer that is not this daemon, and the empty reply of a
\* connection closed without an answer
OtherReplies ==
    {<<>>, <<BadByte>>, <<".">>, <<" ", "7", ".">>, <<"7", " ", "7">>,
     ErrRange, <<"ERROR: ", "SPI transfer failed", " ">>}

\* variant: 'all' enumerates one index more
AllChannelsNine == [k \in 1..9 |-> k - 1]

\* list(range(8))
AllChannels == [k \in 1..8 |-> k - 1]

\* bytes.decode('ascii') succeeds
AsciiOk(raw) == \A k \in 1..Len(raw) : raw[k] # BadByte

\* response.startswith("ERROR")
StartsWithError(text) == text # <<>> /\ Head(text) = "ERROR: "

\* position of the first "." of a text, 0 when it has none
RECURSIVE DotAt(_, _)
DotAt(s, k) ==
    IF k > Len(s) THEN 0 ELSE IF s[k] = "." THEN k ELSE DotAt(s, k + 1)

\* float(response) succeeds: sign, digits, at most one "." with digits on at
\* least one side (the replies carry no exponent, "inf" or "nan")
FloatOk(text) ==
    LET t == Strip(text)
        b == IntBody(t)
        d == DotAt(b, 1)
        whole == SubSeq(b, 1, d - 1)
        frac == SubSeq(b, d + 1, Len(b))
    IN  IF d = 0 THEN IntBodyOk(b)
        ELSE /\ whole # <<>> \/ frac # <<>>
             /\ whole = <<>> \/ IntBodyOk(whole)
             /\ frac = <<>> \/ IntBodyOk(frac)

RECURSIVE Pow10(_)
Pow10(n) == IF n = 0 THEN 1 ELSE 10 * Pow10(n - 1)

\* float(response) in units of 100 microvolts, for a text of at most 4 decimals
FloatValue(text) ==
    LET t == Strip(text)
        b == IntBody(t)
        d == DotAt(b, 1)
        whole == IF d = 0 THEN b ELSE SubSeq(b, 1, d - 1)
        frac == IF d = 0 THEN <<>> ELSE SubSeq(b, d + 1, Len(b))
        digits == Cardinality({k \in 1..Len(frac) : IsDigit(frac[k])})
        v == IntBodyValue(whole, 0) * 10000
             + IntBodyValue(frac, 0) * Pow10(4 - digits)
    IN  IF t # <<>> /\ Head(t) = "-" THEN 0 - v ELSE v

cliLoopPcs == {"connect", "sendall", "recv", "parse", "returned", "sleep"}

ClientInit ==
    /\ cargs \in [channel : ChannelArgs, loop : BOOLEAN]
    /\ cpc = "validate"
    /\ cchannels = <<>>
    /\ idx = 0
    /\ sent = NoText
    /\ craw = NoText
    /\ cfault = "none"
    /\ ret = None
    /\ thisreading = [k \in 0..(NumChannels - 1) |-> 0]
    /\ lastreading = [k \in 0..(NumChannels - 1) |-> 0]
    /\ linecount = 0
    /\ cout = "none"
    /\ cexit = NoStatus

\* Validate channel argument: 'all', or int() of it within 0..7, else exit 1
ValidateChannel ==
    /\ cpc = "validate"
    /\ IF cargs.channel = AllArg
       THEN /\ cchannels' = AllChannels
            /\ idx' = 1
            /\ cpc' = "connect"
            /\ UNCHANGED <<cout, cexit>>
       ELSE IF IntOk(cargs.channel) /\ 0 <= IntValue(cargs.channel)
                                    /\ IntValue(cargs.channel) <= 7
       THEN /\ cchannels' = <<IntValue(cargs.channel)>>
            /\ idx' = 1
            /\ cpc' = "connect"
            /\ UNCHANGED <<cout, cexit>>
       ELSE /\ cout' = "usage"
            /\ cexit' = 1
            /\ cpc' = "exited"
            /\ UNCHANGED <<cchannels, idx>>
    /\ UNCHANGED <<cargs, sent, craw, cfault, ret, thisreading, lastreading, linecount>>
    /\ UNCHANGED <<daemonVars, netVars, dupVars>>

\* variant: the exception is not caught in get_adc_voltage
CaughtRaises(kind) ==
    /\ cfault' = kind
    /\ cexit' = 1
    /\ cout' = "traceback"
    /\ cpc' = "exited"
    /\ UNCHANGED ret

\* except Exception as e: print(f"Communication error: ..."); return None
Caught(kind) ==
    /\ cfault' = kind
    /\ ret' = None
    /\ cout' = "comm_error"
    /\ cpc' = "returned"
    /\ UNCHANGED cexit

\* socket.socket(AF_UNIX, SOCK_STREAM); sock.connect(socket_path)
Connect ==
    /\ cpc = "connect"
    /\ sent' = NoText
    /\ craw' = NoText
    /\ \/ /\ cfault' = "none"
          /\ cpc' = "sendall"
          /\ UNCHANGED <<ret, cout, cexit>>
       \/ Caught("connect")
    /\ UNCHANGED <<cargs, cchannels, idx, thisreading, lastreading, linecount>>
    /\ UNCHANGED <<daemonVars, netVars, dupVars>>

\* sock.sendall(str(channel).encode('ascii'))
Sendall ==
    /\ cpc = "sendall"
    /\ \/ /\ sent' = DecimalText(cchannels[idx])
          /\ cpc' = "recv"
          /\ UNCHANGED <<cfault, ret, cout, cexit>>
       \/ /\ Caught("sendall")
          /\ UNCHANGED sent
    /\ UNCHANGED <<cargs, cchannels, idx, craw, thisreading, lastreading, linecount>>
    /\ UNCHANGED <<daemonVars, netVars, dupVars>>

\* sock.recv(1024): the reply of the daemon to what was sent, the reply of
\* another peer, or a connection fault
RecvReply ==
    /\ cpc = "recv"
    /\ \/ /\ \E r \in HandleRequest(sent, ClientSamples) \cup OtherReplies : craw' = r
          /\ cpc' = "parse"
          /\ UNCHANGED <<cfault, ret, cout, cexit>>
       \/ /\ Caught("recv")
          /\ UNCHANGED craw
    /\ UNCHANGED <<cargs, cchannels, idx, sent, thisreading, lastreading, linecount>>
    /\ UNCHANGED <<daemonVars, netVars, dupVars>>

\* .decode('ascii').strip(); startswith("ERROR") raises; return float(response)
ParseReply ==
    /\ cpc = "parse"
    /\ IF ~AsciiOk(craw) THEN Caught("decode")
       ELSE IF StartsWithError(Strip(craw)) THEN Caught("error_reply")
       ELSE IF ~FloatOk(Strip(craw)) THEN Caught("float")
       ELSE /\ ret' = <<FloatValue(Strip(craw))>>
            /\ cpc' = "returned"
            /\ UNCHANGED <<cfault, cout, cexit>>
    /\ UNCHANGED <<cargs, cchannels, idx, sent, craw, thisreading, lastreading,
                   linecount>>
    /\ UNCHANGED <<daemonVars, netVars, dupVars>>

\* the for loop goes to the next channel, or the cycle / the program ends
NextChannel ==
    IF idx < Len(cchannels)
    THEN /\ idx' = idx + 1
         /\ cpc' = "connect"
         /\ UNCHANGED cexit
    ELSE IF cargs.loop
    THEN /\ cpc' = "sleep"
         /\ UNCHANGED <<idx, cexit>>
    ELSE /\ cpc' = "exited"
         /\ cexit' = 0
         /\ UNCHANGED idx

\* printvalue(last, current): highlighted when the gain is above 10 percent
PrintValue(last, current) ==
    IF current > 0 /\ (current - last) * 10 > current THEN "highlight" ELSE "value"

\* loop mode: thisreading[current_channel] = get_adc_voltage(current_channel),
\* printvalue, lastreading[current_channel] = thisreading[current_channel];
\* an array('d') takes no None: TypeError, caught nowhere
LoopStore ==
    /\ cpc = "returned"
    /\ cargs.loop
    /\ IF ret = None
       THEN /\ cout' = "traceback"
            /\ cexit' = 1
            /\ cpc' = "exited"
            /\ UNCHANGED <<thisreading, lastreading, idx>>
       ELSE /\ thisreading' = [thisreading EXCEPT ![cchannels[idx]] = ret[1]]
            /\ cout' = PrintValue(lastreading[cchannels[idx]], ret[1])
            /\ lastreading' = [lastreading EXCEPT ![cchannels[idx]] = ret[1]]
            /\ NextChannel
    /\ UNCHANGED <<cargs, cchannels, sent, craw, cfault, ret, linecount>>
    /\ UNCHANGED <<daemonVars, netVars, dupVars>>

\* one-shot mode: print the voltage, or "Error reading channel"
OneShotPrint ==
    /\ cpc = "returned"
    /\ ~cargs.loop
    /\ cout' = IF ret # None THEN "value" ELSE "error"
    /\ NextChannel
    /\ UNCHANGED <<cargs, cchannels, sent, craw, cfault, ret, thisreading,
                   lastreading, linecount>>
    /\ UNCHANGED <<daemonVars, netVars, dupVars>>

\* print(""); linecount += 1; time.sleep(1); the next cycle
LoopSleep ==
    /\ cpc = "sleep"
    /\ linecount < MaxCycles
    /\ linecount' = linecount + 1
    /\ idx' = 1
    /\ cpc' = "connect"
    /\ UNCHANGED <<cargs, cchannels, sent, craw, cfault, ret, thisreading,
                   lastreading, cout, cexit>>
    /\ UNCHANGED <<daemonVars, netVars, dupVars>>

\* except KeyboardInterrupt: print("Exiting loop.")
KeyboardInterrupt ==
    /\ cargs.loop
    /\ cpc \in cliLoopPcs
    /\ cout' = "exiting"
    /\ cexit' = 0
    /\ cpc' = "exited"
    /\ UNCHANGED <<cargs, cchannels, idx, sent, craw, cfault, ret, thisreading,
                   lastreading, linecount>>
    /\ UNCHANGED <<daemonVars, netVars, dupVars>>

\* the daemon is a peer of the client here: its replies are HandleRequest's
CliInit ==
    /\ DaemonInit
    /\ argv = [hwversion |-> "5.1", loglevel |-> 3]
    /\ sockFile = "absent"
    /\ NetIdle
    /\ DupIdle
    /\ ClientInit

CliNext ==
    \/ ValidateChannel
    \/ Connect
    \/ Sendall
    \/ RecvReply
    \/ ParseReply
    \/ LoopStore
    \/ OneShotPrint
    \/ LoopSleep
    \/ KeyboardInterrupt

SpecClient == CliInit /\ [][CliNext]_vars

\* ------------------------------------------------------------------------
\* Two daemon instances on one socket path: start-up and shutdown of each,
\* step by step, on the one file system
\* ------------------------------------------------------------------------

\* --hwversion of the instances that are started
DupHwVersions == {"5.1", "7.1"}

sigPcs == {"sig_unlink"}

\* the position of main(), also while the signal handler runs
Frame(i) == IF ipc[i] \in sigPcs THEN ifr[i] ELSE ipc[i]

Live(i) == ipc[i] \notin {"off", "exited"}

\* instance i has bound its socket to the path and has not exited
Bound(i) == Live(i) /\ Frame(i) \in {"chmod", "listen", "accept"}

\* instance i is in its accept loop, listening on its socket
Listening(i) == Live(i) /\ Frame(i) = "accept"

\* the unlink of instance i removes the file at the path
UnlinkBy(i, step) ==
    /\ path' = "absent"
    /\ IF path \in Instances \ {i} /\ Listening(path)
       THEN /\ lost' = lost \cup {path}
            /\ lostTo' = lostTo \cup {step}
       ELSE UNCHANGED <<lost, lostTo>>

\* the instance is started; adccs = digitalio.DigitalInOut(...) fails when
\* the pin is held and the GPIO backend claims pins exclusively
InstSelectCS(i) ==
    /\ ipc[i] = "off"
    /\ \E hw \in DupHwVersions, exclusive \in BOOLEAN :
          IF exclusive /\ \E j \in Instances \ {i} : Live(j) /\ ihw[j] = CsPin(hw)
          THEN /\ ipc' = [ipc EXCEPT ![i] = "exited"]
               /\ UNCHANGED ihw
          ELSE /\ ipc' = [ipc EXCEPT ![i] = "hw_init"]
               /\ ihw' = [ihw EXCEPT ![i] = CsPin(hw)]
    /\ UNCHANGED <<isaw, ifr, path, lost, lostTo, reached>>
    /\ UNCHANGED <<daemonVars, netVars, cliVars>>

\* the try block of hardware initialisation: done, or logged and exit(1)
InstHwInit(i) ==
    /\ ipc[i] = "hw_init"
    /\ \E ok \in BOOLEAN :
          ipc' = [ipc EXCEPT ![i] = IF ok THEN "cleanup_exists" ELSE "exited"]
    /\ UNCHANGED <<ihw, isaw, ifr, path, lost, lostTo, reached>>
    /\ UNCHANGED <<daemonVars, netVars, cliVars>>

\* if os.path.exists(socket_file):
InstCleanupExists(i) ==
    /\ ipc[i] = "cleanup_exists"
    /\ isaw' = [isaw EXCEPT ![i] = path # "absent"]
    /\ ipc' = [ipc EXCEPT ![i] = "cleanup_unlink"]
    /\ UNCHANGED <<ihw, ifr, path, lost, lostTo, reached>>
    /\ UNCHANGED <<daemonVars, netVars, cliVars>>

\* os.unlink(socket_file); FileNotFoundError is not caught here
InstCleanupUnlink(i) ==
    /\ ipc[i] = "cleanup_unlink"
    /\ IF ~isaw[i]
       THEN /\ ipc' = [ipc EXCEPT ![i] = "bind"]
            /\ UNCHANGED <<path, lost, lostTo>>
       ELSE IF path = "absent"
       THEN /\ ipc' = [ipc EXCEPT ![i] = "exited"]
            /\ UNCHANGED <<path, lost, lostTo>>
       ELSE /\ UnlinkBy(i, "startup")
            /\ ipc' = [ipc EXCEPT ![i] = "bind"]
    /\ UNCHANGED <<ihw, isaw, ifr, reached>>
    /\ UNCHANGED <<daemonVars, netVars, cliVars>>

\* server = socket.socket(...); server.bind(socket_file): OSError (address in
\* use) when a file is at the path, not caught
InstBind(i) ==
    /\ ipc[i] = "bind"
    /\ IF path = "absent"
       THEN /\ path' = i
            /\ ipc' = [ipc EXCEPT ![i] = "chmod"]
       ELSE /\ ipc' = [ipc EXCEPT ![i] = "exited"]
            /\ UNCHANGED path
    /\ UNCHANGED <<ihw, isaw, ifr, lost, lostTo, reached>>
    /\ UNCHANGED <<daemonVars, netVars, cliVars>>

\* os.chmod(socket_file, 0o666): FileNotFoundError when the file is gone
InstChmod(i) ==
    /\ ipc[i] = "chmod"
    /\ ipc' = [ipc EXCEPT ![i] = IF path = "absent" THEN "exited" ELSE "listen"]
    /\ UNCHANGED <<ihw, isaw, ifr, path, lost, lostTo, reached>>
    /\ UNCHANGED <<daemonVars, netVars, cliVars>>

\* server.listen(5)
InstListen(i) ==
    /\ ipc[i] = "listen"
    /\ ipc' = [ipc EXCEPT ![i] = "accept"]
    /\ UNCHANGED <<ihw, isaw, ifr, path, lost, lostTo, reached>>
    /\ UNCHANGED <<daemonVars, netVars, cliVars>>

\* one turn of the accept loop: a client's connect(socket_file) reaches the
\* instance whose socket is bound at the path
InstServe(i) ==
    /\ ipc[i] = "accept"
    /\ path = i
    /\ reached # i
    /\ reached' = i
    /\ UNCHANGED <<ipc, ihw, isaw, ifr, path, lost, lostTo>>
    /\ UNCHANGED <<daemonVars, netVars, cliVars>>

\* SIGINT or SIGTERM: signal_handler logs, then if os.path.exists(socket_file):
InstSignalExists(i) ==
    /\ Live(i)
    /\ ipc[i] \notin sigPcs
    /\ ifr' = [ifr EXCEPT ![i] = ipc[i]]
    /\ isaw' = [isaw EXCEPT ![i] = path # "absent"]
    /\ ipc' = [ipc EXCEPT ![i] = "sig_unlink"]
    /\ UNCHANGED <<ihw, path, lost, lostTo, reached>>
    /\ UNCHANGED <<daemonVars, netVars, cliVars>>

\* os.unlink(socket_file); sys.exit(0). FileNotFoundError leaves the handler
\* into main(): caught by the accept loop's except Exception, fatal elsewhere
InstSignalUnlink(i) ==
    /\ ipc[i] = "sig_unlink"
    /\ IF ~isaw[i]
       THEN /\ ipc' = [ipc EXCEPT ![i] = "exited"]
            /\ UNCHANGED <<path, lost, lostTo>>
       ELSE IF path = "absent"
       THEN /\ ipc' = [ipc EXCEPT ![i] = IF ifr[i] = "accept" THEN "accept" ELSE "exited"]
            /\ UNCHANGED <<path, lost, lostTo>>
       ELSE /\ UnlinkBy(i, "shutdown")
            /\ ipc' = [ipc EXCEPT ![i] = "exited"]
    /\ UNCHANGED <<ihw, isaw, ifr, reached>>
    /\ UNCHANGED <<daemonVars, netVars, cliVars>>

DupInit ==
    /\ DaemonInit
    /\ argv = [hwversion |-> "5.1", loglevel |-> 3]
    /\ sockFile = "absent"
    /\ NetIdle
    /\ ClientIdle
    /\ ipc = [i \in Instances |-> "off"]
    /\ ihw = [i \in Instances |-> NoPin]
    /\ isaw = [i \in Instances |-> FALSE]
    /\ ifr = [i \in Instances |-> "none"]
    /\ path \in {"absent", "stale"}
    /\ lost = {}
    /\ lostTo = {}
    /\ reached = "none"

DupNext ==
    \/ \E i \in Instances : InstSelectCS(i)
    \/ \E i \in Instances : InstHwInit(i)
    \/ \E i \in Instances : InstCleanupExists(i)
    \/ \E i \in Instances : InstCleanupUnlink(i)
    \/ \E i \in Instances : InstBind(i)
    \/ \E i \in Instances : InstChmod(i)
    \/ \E i \in Instances : InstListen(i)
    \/ \E i \in Instances : InstServe(i)
    \/ \E i \in Instances : InstSignalExists(i)
    \/ \E i \in Instances : InstSignalUnlink(i)

SpecDup == DupInit /\ [][DupNext]_vars

\* ------------------------------------------------------------------------
\* Vocabulary of the properties
\* ------------------------------------------------------------------------

HasEvent(op) == \E k \in 1..Len(events) : events[k].op = op

\* the last connection was answered: its reply is on the wire, it is closed
Replied == outcome = "replied"

\* d is the text t, optionally surrounded by blanks
Padded(d, t) ==
    \E a \in 1..Len(d), b \in 1..Len(d) :
       /\ a <= b
       /\ SubSeq(d, a, b) = t
       /\ \A k \in 1..Len(d) : (k < a \/ k > b) => d[k] = " "

AllDigits(t) == t # <<>> /\ \A k \in 1..Len(t) : t[k] \in DigitChars

\* an optional sign and one or more decimal digits
SignedDigits(t) ==
    /\ t # <<>>
    /\ IF t[1] \in {"+", "-"} THEN AllDigits(Tail(t)) ELSE AllDigits(t)

\* d is a base-10 integer after trimming
IsBase10Integer(d) ==
    \E a \in 1..Len(d), b \in 1..Len(d) :
       a <= b /\ Padded(d, SubSeq(d, a, b)) /\ SignedDigits(SubSeq(d, a, b))

\* digits grouped by single underscores, as in 1_000
GroupedDigits(t) ==
    /\ t # <<>>
    /\ t[1] # "_" /\ t[Len(t)] # "_"
    /\ \A k \in 1..Len(t) : t[k] \in DigitChars \cup {"_"}
    /\ \A k \in 1..(Len(t) - 1) : ~(t[k] = "_" /\ t[k + 1] = "_")

\* d is, after trimming, an optional sign and digits that may be grouped
IsGroupedInteger(d) ==
    \E a \in 1..Len(d), b \in 1..Len(d) :
       /\ a <= b
       /\ Padded(d, SubSeq(d, a, b))
       /\ LET t == SubSeq(d, a, b)
          IN  t # <<>> /\ GroupedDigits(IF t[1] \in {"+", "-"} THEN Tail(t) ELSE t)

\* w matches ^\d+\.\d{4}$
IsVoltageText(w) ==
    /\ Len(w) >= 6
    /\ w[Len(w) - 4] = "."
    /\ \A k \in 1..Len(w) : k # Len(w) - 4 => IsDigit(w[k])

IsErrorReply(w) == w # <<>> /\ w[1] = "ERROR: "

\* the operations of a connection that was served from channel i
ServedFrom(i) ==
    <<Ev("accept", NoChan), Ev("recv", NoChan), Ev("read", i), Ev("send", NoChan)>>

\* ------------------------------------------------------------------------
\* Properties
\* ------------------------------------------------------------------------

\* C1 as stated: a connection whose payload is the decimal text of a channel
\* index i in 0..7, optionally surrounded by whitespace, is answered with the
\* 4-decimal text of a sample of channel i, never with an ERROR reply, after
\* exactly one hardware read, of channel i, between the receive and the reply.
C1_AlwaysVoltage ==
    \A i \in 0..7 :
       (Replied /\ Padded(data, <<DigitChar(i)>>)) =>
          /\ events = ServedFrom(i)
          /\ IsVoltageText(wire)
          /\ wire = FormatVoltage(voltage)

\* C1, amended: such a connection is answered after exactly one hardware read,
\* of channel i and no other, made between the receive and the reply; the
\* reply is the 4-decimal text of the sample when the read returns one, and
\* an ERROR reply only when the read itself raises.
C1_OneReadOfRequestedChannel ==
    \A i \in 0..7 :
       (Replied /\ Padded(data, <<DigitChar(i)>>)) =>
          /\ events = ServedFrom(i)
          /\ readErr = NoErr =>
                /\ voltage \in Samples
                /\ IsVoltageText(wire)
                /\ wire = FormatVoltage(voltage)
          /\ readErr # NoErr => IsErrorReply(wire)

C1_Witness ==
    /\ Replied
    /\ data = <<" ", "7", " ">>
    /\ wire = <<"1", ".", "6", "5", "0", "0">>
    /\ events = ServedFrom(7)

\* C2: a payload that parses as an integer outside 0..7 is answered with
\* exactly "ERROR: Channel must be 0-7", and no hardware read is made for that
\* connection at any moment.
C2_OutOfRange ==
    (channel # NoChannel /\ (channel < 0 \/ channel >= 8)) =>
       /\ ~HasEvent("read")
       /\ voltage = NoSample
       /\ Replied => wire = ErrRange

C2_Witness ==
    /\ Replied
    /\ channel = -7
    /\ wire = ErrRange
    /\ events = <<Ev("accept", NoChan), Ev("recv", NoChan), Ev("send", NoChan)>>

\* C3 as stated: every non-empty payload that is not a base-10 integer after
\* trimming is answered with exactly "ERROR: Invalid channel format" and
\* causes no hardware read.
C3_NotAnInteger ==
    (Replied /\ data # <<>> /\ ~IsBase10Integer(data)) =>
       /\ wire = ErrFormat
       /\ ~HasEvent("read")

\* C3, amended: every non-empty payload that, after trimming, is not an
\* optionally signed run of decimal digits, where single underscores may
\* separate the digits, is answered with exactly "ERROR: Invalid channel
\* format", which differs from the out-of-range reply, and causes no hardware
\* read. (A payload with such underscores is read as the integer without them.)
C3_NotAnIntLiteral ==
    /\ ErrFormat # ErrRange
    /\ (data # <<>> /\ ~IsGroupedInteger(data)) =>
          /\ ~HasEvent("read")
          /\ channel = NoChannel
          /\ Replied => wire = ErrFormat

C3_Witness ==
    /\ Replied
    /\ data \in {<<" ", " ">>, <<"7", ".", "0">>, <<BadByte>>}
    /\ wire = ErrFormat

\* C4: when the receive returns no bytes the daemon writes no reply, makes no
\* hardware read, closes the connection and accepts again; a reply is written
\* only for a non-empty payload.
C4_EmptyPayloadDropped ==
    /\ (HasEvent("recv") /\ data = <<>> /\ frame = "none") =>
          /\ wire = NoText
          /\ events = <<Ev("accept", NoChan), Ev("recv", NoChan)>>
          /\ pc \in {"check", "accept"}
          /\ pc = "accept" => (outcome = "dropped" /\ conn = "closed")
    /\ outcome = "dropped" => (HasEvent("recv") /\ data = <<>>)
    /\ HasEvent("send") => data # <<>>

C4_Witness ==
    /\ outcome = "dropped"
    /\ pc = "accept"
    /\ conn = "closed"
    /\ wire = NoText

LoopPcs == {"accept", "recv", "check", "parse", "read", "send", "sleep"}

ExceptionRecord == [message |-> "error", level |-> 0, severity |-> "exception"]

\* a step of the accept loop taken while no termination signal is handled
C6_LoopStep ==
    (pc \in LoopPcs /\ frame' = "none") =>
       /\ pc' \in LoopPcs
       /\ server' = "listening"
       /\ exitStatus' = NoStatus
       /\ (outcome' = "exception" /\ pc # "sleep") =>
             (pc' = "sleep" /\ lastLog' = ExceptionRecord /\ conn' # "open")
       /\ pc = "sleep" => pc' = "accept"

\* C6: once listening, and as long as no termination signal is handled, no
\* step of connection handling ends the daemon: a malformed or out-of-range
\* request, a failing read, a peer that is gone before the reply and an
\* exception in accept, receive or send all keep it in the loop; an exception
\* is logged, followed by the pause and by the next accept.
C6_LoopNeverEnds == [][C6_LoopStep]_vars

C6_Witness ==
    /\ pc = "accept"
    /\ outcome = "exception"
    /\ HasEvent("read")
    /\ lastLog = ExceptionRecord
    /\ server = "listening"

\* C7: a termination signal handled at any point after the socket was
\* created, whatever main() is doing, ends the process with exit status 0 and
\* with no file at the socket path; and the handler can run at every such
\* point.
C7_SignalExitsClean ==
    /\ frame # "none" =>
          /\ pc = "exited"
          /\ exitStatus = 0
          /\ sockFile = "absent"
    /\ (server \notin {"none", "closed"}) => ENABLED SignalHandler

C7_Witness ==
    /\ frame = "read"
    /\ pc = "exited"
    /\ exitStatus = 0
    /\ sockFile = "absent"
    /\ server = "closed"

\* C8: the socket is created only after the chip-select pin, the bus, the
\* converter and the 8 channels are set up; when a step of that set-up raises,
\* or the hardware revision is not a recognised one, the process ends with a
\* non-zero status (unless a termination signal ended it first) and no socket
\* was ever created, bound or listened on.
C8_InitBeforeSocket ==
    /\ server # "none" =>
          /\ ~initError
          /\ hwversion \in {"2.2", "5.1", "7.1"}
          /\ adccs = CsPin(hwversion)
          /\ spi = "open"
          /\ mcp = "MCP3008"
          /\ Len(channels) = 8
    /\ (initError \/ argv.hwversion \notin {"2.2", "5.1", "7.1"}) =>
          /\ server = "none"
          /\ sockFile # "bound"
          /\ pc \in {"parse_arguments", "exited"}
          /\ (pc = "exited" /\ frame = "none") => exitStatus \in {1, 2}
    /\ initError => (pc = "exited" /\ exitStatus = 1)

C8_Witness ==
    /\ initError
    /\ spi = "open"
    /\ mcp = "none"
    /\ pc = "exited"
    /\ exitStatus = 1
    /\ server = "none"

\* C9: every fatal failure of hardware initialisation, the acquisition of the
\* chip-select pin included, is logged as an exception record through
\* log_message_json before the process exits.
C9_InitFailureLogged ==
    (initError /\ pc = "exited") => lastLog = ExceptionRecord

\* positions of main() at which a received request has not been answered yet
InFlightPcs == {"check", "parse", "read", "send"}

\* C10 as stated: a termination signal never cancels a request in flight;
\* once the payload of a connection is received, its reply is written before
\* the process terminates.
C10_InFlightAnswered ==
    (pc = "exited" /\ frame \in InFlightPcs /\ data # <<>>) => HasEvent("send")

\* C10, amended: a termination signal handled after the payload of a
\* connection is received and before its reply is written cancels that
\* request: the process exits at once, the connection is closed and no reply
\* is ever written on it; nothing is accepted, read or written after the
\* signal.
C10_InFlightCancelled ==
    /\ (frame \in InFlightPcs /\ data # <<>>) =>
          /\ pc = "exited"
          /\ conn = "closed"
          /\ wire = NoText
          /\ ~HasEvent("send")
    /\ pc = "exited" => ~ENABLED Next

C10_Witness ==
    /\ frame = "send"
    /\ pc = "exited"
    /\ response = <<"1", ".", "6", "5", "0", "0">>
    /\ wire = NoText
    /\ conn = "closed"

\* a step of connection handling (the loop is not left)
C13_Step ==
    (pc \in LoopPcs /\ pc' \in LoopPcs) =>
       /\ UNCHANGED <<channels, hwversion, adccs, spi, mcp, loglevel>>
       /\ UNCHANGED <<server, sockFile, sockMode>>
       /\ channels' = ChannelList
       /\ hwversion' = argv.hwversion
       /\ server' = "listening"

\* C13: handling a connection, whatever its payload and outcome, leaves the
\* daemon's state as it was: the channel list (8 handles, in order), the
\* hardware revision and the devices chosen at start-up, the socket file and
\* the listening socket; only the per-request values change.
C13_ConnectionLeavesState == [][C13_Step]_vars

C13_Witness ==
    /\ Replied
    /\ hwFailed
    /\ data = <<"0">>
    /\ wire = <<"0", ".", "0", "0", "0", "1">>
    /\ channels = ChannelList
    /\ server = "listening"
    /\ sockFile = "bound"

\* C18: start-up removes a file found at the socket path before it binds, and
\* gives the new socket file mode 0666 before it listens; so from the first
\* accept until the signal handler runs the socket file is there with mode
\* 0666, whether or not a stale file was found at start-up.
C18_SocketFileMode ==
    /\ pc \in {"socket", "bind"} => (sockFile = "absent" /\ sockMode = "none")
    /\ pc = "chmod" => sockFile = "bound"
    /\ pc \in LoopPcs \cup {"listen"} => (sockFile = "bound" /\ sockMode = "0666")
    /\ server = "listening" => (sockFile = "bound" /\ sockMode = "0666")

C18_Witness ==
    /\ pc = "accept"
    /\ outcome = "replied"
    /\ server = "listening"
    /\ sockFile = "bound"
    /\ sockMode = "0666"

startupPcs ==
    {"parse_arguments", "select_cs", "open_spi", "init_mcp", "create_channels",
     "cleanup", "socket", "bind", "chmod", "listen"}

\* C11: connections are handled strictly one at a time: at most one accepted
\* connection is open in any state, it is the one being handled, every
\* connection is closed (reply sent, empty payload, exception in receive or
\* send) before the next accept, and a hardware read is made only for the one
\* open connection.
C11_OneConnectionAtATime ==
    /\ Cardinality(open) <= 1
    /\ open \subseteq {cur}
    /\ conn = "open" <=> open # {}
    /\ pc \in {"accept", "sleep", "exited"} \cup startupPcs => open = {}
    /\ pc \in {"recv", "check", "parse", "read", "send"} => open = {cur}
    /\ \A c \in Clients : c \in open => recvs[c] <= 1 /\ answered[c] = 0

C11_Witness ==
    /\ pc = "read"
    /\ open = {cur}
    /\ Len(accepted) = 2
    /\ accepted[1] \notin open
    /\ answered[accepted[1]] = 1

IsPrefix(p, q) == Len(p) <= Len(q) /\ SubSeq(q, 1, Len(p)) = p

\* C12: requests are served in arrival order: the connections are accepted in
\* the order in which they were queued on the listening socket, and when a
\* connection is accepted every connection queued before it has been accepted
\* and finished (answered, dropped or failed) and is closed.
C12_ArrivalOrder ==
    /\ IsPrefix(accepted, arrivals)
    /\ arrivals = accepted \o backlog
    /\ \A k \in 1..Len(accepted) :
          /\ k < Len(accepted) => accepted[k] \notin open
          /\ accepted[k] # cur => accepted[k] \notin open
    /\ accepted # <<>> => cur = accepted[Len(accepted)]

C12_Witness ==
    /\ arrivals = <<2, 1>>
    /\ accepted = <<2, 1>>
    /\ recvs[2] = 1
    /\ answered[2] = 0
    /\ cphase[2] = "closed"
    /\ pc = "send"
    /\ open = {1}

RECURSIVE Flatten(_)
Flatten(ws) == IF ws = <<>> THEN <<>> ELSE Head(ws) \o Flatten(Tail(ws))

\* on every connection: at most one receive, at most one reply, closed once
\* the reply is written
C17_OneExchange ==
    \A c \in Clients :
       /\ recvs[c] <= 1
       /\ answered[c] <= 1
       /\ answered[c] = 1 => (c \notin open /\ recvs[c] = 1)

\* C17 as stated: on every accepted connection the daemon makes at most one
\* receive and writes at most one reply, and closes the connection right after
\* the reply; a second request that the client sends on the connection is
\* never read or answered.
C17_SecondRequestNeverRead ==
    /\ C17_OneExchange
    /\ (HasEvent("recv") /\ wrote[cur] # <<>>) => data = wrote[cur][1]

\* C17, amended: at most one receive, at most one reply, and the connection
\* is closed right after the reply; what the client writes after that one
\* receive is never read or answered, while bytes of a second request that
\* arrive before the receive are returned by it together with the first and
\* answered as one payload.
C17_OneReceiveOneReply ==
    /\ C17_OneExchange
    /\ HasEvent("recv") =>
          /\ recvs[cur] = 1
          /\ data \o inbuf[cur] = Flatten(wrote[cur])
    /\ \A c \in Clients : recvs[c] = 0 => inbuf[c] = Flatten(wrote[c])

C17_Witness ==
    /\ cur # NoClient
    /\ recvs[cur] = 1
    /\ answered[cur] = 1
    /\ cur \notin open
    /\ data = <<"7">>
    /\ wrote[cur] = <<<<"7">>, <<"0">>>>
    /\ inbuf[cur] = <<"0">>
    /\ pc = "accept"

\* the accepted client has neither written nor closed: recv is blocked
Silent ==
    /\ pc = "recv"
    /\ inbuf[cur] = <<>>
    /\ cphase[cur] = "connected"

\* the accepted client has written or closed: recv can return
Served ==
    /\ pc = "recv"
    /\ inbuf[cur] # <<>> \/ cphase[cur] = "closed"

C19_Step ==
    Silent =>
       /\ accepted' = accepted
       /\ answered' = answered
       /\ recvs' = recvs
       /\ pc' \in {"recv", "exited"}

\* C19: there is no per-request timeout: while the accepted client has
\* neither sent data nor closed its end the daemon accepts and answers no
\* other connection, however many are waiting; once that client has sent data
\* or closed, the daemon finishes its connection and is back at accept, where
\* the waiting connections are taken.
C19_NoTimeout ==
    /\ [][C19_Step]_vars
    /\ Served ~> (pc \in {"accept", "exited"} /\ open = {})
    /\ [](pc = "accept" /\ backlog # <<>> => ENABLED NetAccept)

C19_Witness ==
    /\ pc = "accept"
    /\ outcome = "replied"
    /\ backlog # <<>>
    /\ Len(accepted) = 1
    /\ Len(wrote[backlog[1]]) = 2
    /\ open = {}

\* what get_adc_voltage is to return for the faults and the reply of a call
Expected ==
    IF /\ cfault \notin {"connect", "sendall", "recv"}
       /\ craw # NoText
       /\ AsciiOk(craw)
       /\ ~StartsWithError(Strip(craw))
       /\ FloatOk(craw)
    THEN <<FloatValue(craw)>>
    ELSE None

\* C14: get_adc_voltage never passes an exception on to its caller: it
\* returns None when the reply starts with "ERROR", when the reply is not a
\* number (the empty reply included) and on any fault of the connection;
\* otherwise it returns the reply as a voltage.
C14_QueryNeverRaises ==
    /\ cout = "traceback" => (cargs.loop /\ cpc = "exited" /\ ret = None)
    /\ cpc = "returned" =>
          /\ ret = Expected
          /\ cfault \in {"connect", "sendall", "recv"} => ret = None
          /\ (craw # NoText /\ ~AsciiOk(craw)) => ret = None
          /\ (craw # NoText /\ AsciiOk(craw) /\ StartsWithError(Strip(craw))) => ret = None
          /\ craw = <<>> => ret = None
          /\ ret # None => cfault = "none"

C14_Witness ==
    /\ cpc = "returned"
    /\ cfault = "error_reply"
    /\ craw = ErrOther("SPI transfer failed")
    /\ ret = None
    /\ cout = "comm_error"
    /\ cexit = NoStatus

\* C15 as stated: in loop mode a communication error of the client (connect,
\* read or write failure, or an error reply of the daemon) is not fatal: the
\* client does not terminate and polls again on the next cycle.
C15_LoopSurvivesCommError ==
    (cargs.loop /\ cfault # "none") => (cexit = NoStatus \/ cout = "exiting")

\* the indices the client can send: the elements of its channel list
ClientIndices == {cchannels[k] : k \in 1..Len(cchannels)}

\* C16: the channel count and the index range agree everywhere: the indices
\* the daemon's validation accepts, the indices of the channel list built at
\* hardware initialisation and the indices the client sends (one validated
\* channel, or the 'all' enumeration) are all exactly 0..7; the client never
\* sends an index the daemon rejects and the daemon accepts no index without
\* a channel.
C16_IndexRangeAgrees ==
    /\ {n \in -20..20 : ChannelInRange(n)} = 0..7
    /\ {k - 1 : k \in DOMAIN ChannelList} = 0..7
    /\ Len(ChannelList) = NumChannels
    /\ ClientIndices \subseteq 0..7
    /\ cargs.channel = AllArg /\ cpc # "validate" => ClientIndices = 0..7
    /\ sent # NoText =>
          /\ cpc \in {"recv", "parse", "returned"} => sent = DecimalText(cchannels[idx])
          /\ IntOk(sent)
          /\ ChannelInRange(IntValue(sent))
          /\ IntValue(sent) + 1 \in DOMAIN ChannelList
          /\ ErrRange \notin HandleRequest(sent, ClientSamples)

C16_Witness ==
    /\ cargs.channel = AllArg
    /\ cpc = "parse"
    /\ idx = 8
    /\ sent = <<"7">>
    /\ craw = FormatVoltage(165000)

\* at most one live instance has the path as its endpoint
OneOwner == Cardinality({i \in Instances : Bound(i)}) <= 1

\* no shutdown has removed the socket file of the other, live instance
ShutdownSparesLive == "shutdown" \notin lostTo

\* C20 as stated: with two daemon instances on the same socket path, in any
\* interleaving of their start-up, serving and signal-driven shutdown steps,
\* at most one live instance owns the path at a time, and the shutdown of one
\* instance never removes the socket file that the other, live instance is
\* listening on.
C20_OneLiveOwner == OneOwner /\ ShutdownSparesLive

====
